---- MODULE Spec2Model ----
(***************************************************************************)
(* Model of the video segmentation planner of ved:                         *)
(*   src/src/ved/video/utils.py  gen_split_part_info, convert_to_seconds   *)
(*                                                                         *)
(* Python floats are modelled as exact rationals [num, den] (den > 0,      *)
(* lowest terms).  Times are drawn from a grid of 1/Scale seconds, so the  *)
(* sub-second cases of the planner (leftover strictly between 0 and 1      *)
(* second) are reachable.  Rounding error of IEEE doubles is not modelled. *)
(***************************************************************************)
EXTENDS Integers, Sequences, FiniteSets, TLC

(* ---------------------------- bounds ----------------------------------- *)

\* grid: one second is Scale units
Scale == 2
\* largest probed duration, in units of 1/Scale second
MaxDuration == 11
\* most negative probed duration, in units of 1/Scale second
MaxNegDuration == 3
\* largest |SECOND| field of the length time stamp, in units of 1/Scale second
MaxSecond == 6
\* largest MINUTE field of the length time stamp
MaxMinute == 1
\* largest HOUR field of the length time stamp
MaxHour == 0
\* number of plan generators alive at the same time
NumGens == 2
\* largest probed duration of the concurrent generators, in 1/Scale second
MaxGenDuration == 3
\* largest SECOND field of their length time stamp, in 1/Scale second
MaxGenSecond == 3
\* number of calls of the planner made one after the other
MaxCalls == 3
\* largest number of characters of a time stamp argument
MaxStampLen == 6
\* longest video of the tree given to a command, in 1/Scale seconds
MaxCmdDuration == 3
\* longest part length given to split, in 1/Scale seconds
MaxCmdSecond == 3
\* largest --max-items given to random
MaxItems == 2
\* largest --length given to rename
MaxRenameLength == 2
\* largest --seed given to random
MaxSeed == 1

(* ---------------------- floats as exact rationals ---------------------- *)

Abs(i) == IF i < 0 THEN -i ELSE i

RECURSIVE GCD(_, _)
GCD(a, b) == IF b = 0 THEN a ELSE GCD(b, a % b)

\* the float n/d, d # 0
Rat(n, d) ==
    LET g == GCD(Abs(n), Abs(d))
        s == IF d < 0 THEN -1 ELSE 1
    IN  [num |-> s * (n \div g), den |-> s * (d \div g)]

\* float(i) of an int i
FromInt(i) == [num |-> i, den |-> 1]

FSub(a, b) == Rat(a.num * b.den - b.num * a.den, a.den * b.den)

FAdd(a, b) == Rat(a.num * b.den + b.num * a.den, a.den * b.den)

FMul(a, b) == Rat(a.num * b.num, a.den * b.den)

\* a / b for b # 0 (Python raises ZeroDivisionError for b = 0)
FDiv(a, b) == Rat(a.num * b.den, a.den * b.num)

\* a >= b
FGe(a, b) == a.num * b.den >= b.num * a.den

\* a < b
FLt(a, b) == a.num * b.den < b.num * a.den

\* math.fabs(a)
fabs(a) == [num |-> Abs(a.num), den |-> a.den]

\* int(a): truncation toward zero
int(a) == IF a.num >= 0 THEN a.num \div a.den ELSE -((-a.num) \div a.den)

\* math.ceil(a)
ceil(a) == -((-a.num) \div a.den)

(* ------------------------- strings and None ---------------------------- *)

None == [kind |-> "None", val |-> FromInt(0)]

\* str(x) of a float x: Python's repr is injective on floats
str(x) == [kind |-> "str", val |-> x]

(* -------------------------- the inputs --------------------------------- *)

\* pathlib.Path of a video file: stem and suffix (extension)
VideoPaths == { [stem |-> "video", suffix |-> ".mp4"],
                [stem |-> "clip.v2", suffix |-> ".mkv"] }

\* the suffix token of the part names ("_part_" is the CLI default)
Suffixes == { "_part_", "" }

\* a length time stamp HOUR:MINUTE:SECOND, as its three numeric fields
TimeStamps ==
    { << FromInt(h), FromInt(m), Rat(s, Scale) >> :
        h \in 0..MaxHour, m \in 0..MaxMinute, s \in (-MaxSecond)..MaxSecond }

\* clip.duration as probed by moviepy, a float
Durations == { Rat(d, Scale) : d \in (-MaxNegDuration)..MaxDuration }

\* moviepy.tools.cvsecs on the fields of "h:m:s": 3600*h + 60*m + s
cvsecs(time) ==
    FAdd(FAdd(FMul(FromInt(3600), time[1]), FMul(FromInt(60), time[2])), time[3])

convert_to_seconds(timestamp) == cvsecs(timestamp)

(* ------------------------ gen_split_part_info -------------------------- *)

VARIABLES
    pc,           \* "idle", "running", "done" (StopIteration), "raised"
    video_path,   \* argument
    length,       \* argument
    suffix,       \* argument
    duration,     \* clip.duration of the file at video_path
    part_len, video_len, part_ratio, leftover, parts_total, termination,
    part,         \* loop variable of range(parts_total)
    yielded,      \* the tuples yielded so far, in order
    error         \* the exception that ended the generator, or "None"

\* several generator objects of gen_split_part_info, alive at the same time
VARIABLES
    gpc,          \* gpc[g]: "idle", "running", "done" or "raised"
    gargs,        \* gargs[g]: the arguments of generator g and the duration
                  \* of its file
    frame,        \* frame[f]: the local variables held by frame f
    gout,         \* gout[g]: the tuples generator g has yielded so far
    gerr          \* gerr[g]: the exception that ended generator g, or "None"

plannerVars == << pc, video_path, length, suffix, duration, part_len,
                  video_len, part_ratio, leftover, parts_total, termination,
                  part, yielded, error >>

genVars == << gpc, gargs, frame, gout, gerr >>

\* calls of gen_split_part_info made one after the other
VARIABLES
    earlier,      \* an earlier call that has ended: its arguments, the
                  \* tuples it yielded and its exception
    ncalls        \* the number of calls made so far

callVars == << earlier, ncalls >>

\* a time stamp argument of the command line, through TimeStamp.convert
VARIABLES
    ts_param,     \* the argument: "start", "stop" (clip) or "length" (split)
    ts_raw,       \* the text given on the command line, as its characters
    ts_pc,        \* "convert", "body" (the command runs) or "exit"
    ts_value,     \* the value handed to the command
    ts_ran,       \* the body of the command has run
    ts_exit       \* the exit code of the process

stampVars == << ts_param, ts_raw, ts_pc, ts_value, ts_ran, ts_exit >>

\* a video path argument of the command line, through VideoPath.convert
VARIABLES
    vp_cmd,       \* the command the argument belongs to
    vp_kind,      \* what is at the path: "missing", "file", "dir", "other"
    vp_readable,  \* os.access(path, os.R_OK)
    vp_suffix,    \* pathlib's suffix of the path, as its characters
    vp_pc,        \* "convert", "body" (the command runs) or "exit"
    vp_ran,       \* the body of the command has run
    vp_exit       \* the exit code of the process

pathVars == << vp_cmd, vp_kind, vp_readable, vp_suffix, vp_pc, vp_ran,
               vp_exit >>

\* a command of the command line, from its body to its exit
VARIABLES
    c_cmd,        \* the command: "clip", "list", "split", ...
    c_dry,        \* ctx.obj["DRY_RUN"], the flag -n of main
    c_opt,        \* the options and the other arguments of the command
    c_target,     \* the video path argument: the tree or a file of it
    fs,           \* the file system: the video tree and the output directory
    fs0,          \* the file system when the command started
    c_pc,         \* "mkdir", "discover", "loop" or "exit"
    c_vids,       \* the paths the path generator yields
    c_idx,        \* the number of paths processed
    c_log,        \* the lines echoed and the calls that write, in order
    c_exit,       \* the exit code of the process
    c_end         \* how the command ended: "return", "sys.exit" with a
                  \* message, or "traceback" of an exception not handled

cmdVars == << c_cmd, c_dry, c_opt, c_target, fs, fs0, c_pc, c_vids, c_idx,
              c_log, c_exit, c_end >>

\* calls of gen_random_video_paths in one process, one after the other
VARIABLES
    rng,          \* the state of the generator of the random module
    seen,         \* the states random.seed has put the generator in, by seed
    rs_tree,      \* the video tree
    rs_seed,      \* the argument seed of the call
    rs_k,         \* the argument max_items of the call
    rs_pc,        \* "start", "sample" or "done"
    rs_out,       \* the paths the call has yielded
    rs_err,       \* the exception the call has ended in, or "None"
    rs_prev,      \* the arguments and the result of the call before
    rs_run        \* the number of the call

seedVars == << rng, seen, rs_tree, rs_seed, rs_k, rs_pc, rs_out, rs_err,
               rs_prev, rs_run >>

\* the variables of the command line
cliVars == << stampVars, pathVars, cmdVars, seedVars >>

restVars == << genVars, callVars, cliVars >>

vars == << plannerVars, genVars, callVars, cliVars >>

args == << video_path, length, suffix, duration >>

locals == << part_len, video_len, part_ratio, leftover, parts_total,
             termination >>

GenIds == 1..NumGens

\* the arguments of a concurrent generator, and the duration of its file
GenArgs ==
    [ video_path : { [stem |-> "video", suffix |-> ".mp4"] },
      length : { << FromInt(0), FromInt(0), Rat(s, Scale) >> :
                    s \in 0..MaxGenSecond },
      suffix : { "_part_" },
      duration : { Rat(d, Scale) : d \in 0..MaxGenDuration } ]

\* the local variables of a generator that has not run yet
NoFrame ==
    [ part_len |-> FromInt(0), video_len |-> FromInt(0), parts_total |-> 0,
      termination |-> None, part |-> 0 ]

\* no generator object exists beside the one of the planner variables
GensIdle ==
    /\ gpc = [g \in GenIds |-> "done"]
    /\ gargs = [g \in GenIds |-> CHOOSE a \in GenArgs : TRUE]
    /\ frame = [g \in GenIds |-> NoFrame]
    /\ gout = [g \in GenIds |-> << >>]
    /\ gerr = [g \in GenIds |-> "None"]

\* no earlier call is remembered
NoCall ==
    [ known |-> FALSE, no |-> 0, args |-> CHOOSE a \in GenArgs : TRUE,
      out |-> << >>, err |-> "None" ]

\* the first call of the planner
CallsIdle ==
    /\ earlier = NoCall
    /\ ncalls = 1

\* no time stamp argument is being converted
StampIdle ==
    /\ ts_param = "length"
    /\ ts_raw = << >>
    /\ ts_pc = "exit"
    /\ ts_value = << >>
    /\ ts_ran = FALSE
    /\ ts_exit = 0

\* no video path argument is being converted
PathIdle ==
    /\ vp_cmd = "list"
    /\ vp_kind = "missing"
    /\ vp_readable = FALSE
    /\ vp_suffix = << >>
    /\ vp_pc = "exit"
    /\ vp_ran = FALSE
    /\ vp_exit = 0

\* no command is running
CmdIdle ==
    /\ c_cmd = "list"
    /\ c_dry = FALSE
    /\ c_opt = << >>
    /\ c_target = [dir |-> "", stem |-> ".", ext |-> ""]
    /\ fs = << >>
    /\ fs0 = << >>
    /\ c_pc = "exit"
    /\ c_vids = << >>
    /\ c_idx = 0
    /\ c_log = << >>
    /\ c_exit = 0
    /\ c_end = "return"

\* gen_random_video_paths is not called
SeedIdle ==
    /\ rng = << >>
    /\ seen = << >>
    /\ rs_tree = << >>
    /\ rs_seed = None
    /\ rs_k = None
    /\ rs_pc = "done"
    /\ rs_out = << >>
    /\ rs_err = "None"
    /\ rs_prev = << >>
    /\ rs_run = 2

\* no command line is being processed
CliIdle == StampIdle /\ PathIdle /\ CmdIdle /\ SeedIdle

PlannerInit ==
    /\ pc = "idle"
    /\ video_path \in VideoPaths
    /\ length \in TimeStamps
    /\ suffix \in Suffixes
    /\ duration \in Durations
    /\ part_len = FromInt(0)
    /\ video_len = FromInt(0)
    /\ part_ratio = FromInt(0)
    /\ leftover = FromInt(0)
    /\ parts_total = 0
    /\ termination = None
    /\ part = 0
    /\ yielded = << >>
    /\ error = "None"

Init == PlannerInit /\ GensIdle /\ CallsIdle /\ CliIdle

\* extract_video_info(path)[0]
extract_video_info == duration

\* mutant: leftover > 1
LeftoverTest_strict(lo) == FLt(FromInt(1), lo)

\* leftover >= 1
LeftoverTest(lo) == FGe(lo, FromInt(1))

\* mutant: a trailing part is always counted
PartsTotal_plus_one(ratio, lo) == int(ratio) + 1

\* mutant: the count is always rounded up
PartsTotal_always_ceil(ratio, lo) == ceil(ratio)

\* parts_total of line 110
PartsTotal(ratio, lo) == IF LeftoverTest(lo) THEN ceil(ratio) ELSE int(ratio)

\* mutant: the end of the last part is always pinned
Termination_always_pinned(lo, total, plen) == str(FMul(FromInt(total), plen))

\* mutant: the two branches are swapped
Termination_swapped(lo, total, plen) ==
    IF LeftoverTest(lo) THEN str(FMul(FromInt(total), plen)) ELSE None

\* termination of line 113
Termination(lo, total, plen) ==
    IF LeftoverTest(lo) THEN None ELSE str(FMul(FromInt(total), plen))

\* mutant: the parts are numbered from 0
ClipName_zero_based(path, sfx, p, total) ==
    << path.stem, "_", sfx, p, "_of_", total, path.suffix >>

\* mutant: the total is written where the index belongs
ClipName_total_for_index(path, sfx, p, total) ==
    << path.stem, "_", sfx, total, "_of_", total, path.suffix >>

\* the f-strings of lines 118 and 121, as their pieces
ClipName(path, sfx, p, total) ==
    << path.stem, "_", sfx, p + 1, "_of_", total, path.suffix >>

\* mutant: the start is taken one part too far
Start_next_part(plen, p) == str(FMul(plen, FromInt(p + 1)))

\* the string the f-strings of lines 118 and 121 build from the pieces
Format(name) ==
    name[1] \o name[2] \o name[3] \o ToString(name[4]) \o name[5]
            \o ToString(name[6]) \o name[7]

\* line 124
Start(plen, p) == str(FMul(plen, FromInt(p)))

\* line 125
Stop(plen, p, total, term) ==
    IF p + 1 # total THEN str(FMul(plen, FromInt(p + 1))) ELSE term

\* mutant: the ratio is computed lazily, after a first part was yielded
BeginRaise_after_first_part ==
    /\ pc = "idle"
    /\ convert_to_seconds(length).num = 0
    /\ part_len' = convert_to_seconds(length)
    /\ video_len' = extract_video_info
    /\ yielded' = << << str(FromInt(0)), None,
                        ClipName(video_path, suffix, 0, 1) >> >>
    /\ error' = "ZeroDivisionError"
    /\ pc' = "raised"
    /\ UNCHANGED << args, part_ratio, leftover, parts_total, termination,
                    part >>

\* first next(): lines 98-113 with a part length of zero
BeginRaise ==
    /\ pc = "idle"
    /\ convert_to_seconds(length).num = 0
    /\ part_len' = convert_to_seconds(length)
    /\ video_len' = extract_video_info
    /\ error' = "ZeroDivisionError"
    /\ pc' = "raised"
    /\ UNCHANGED << args, part_ratio, leftover, parts_total, termination,
                    part, yielded >>

\* mutant: the loop variable is a counter kept from one call to the next
Begin_keeps_part ==
    /\ pc = "idle"
    /\ convert_to_seconds(length).num # 0
    /\ LET plen == convert_to_seconds(length)
           vlen == extract_video_info
           ratio == FDiv(vlen, plen)
           lo == FMul(fabs(FSub(ratio, FromInt(int(ratio)))), plen)
           total == PartsTotal(ratio, lo)
       IN  /\ part_len' = plen
           /\ video_len' = vlen
           /\ part_ratio' = ratio
           /\ leftover' = lo
           /\ parts_total' = total
           /\ termination' = Termination(lo, total, plen)
    /\ pc' = "running"
    /\ UNCHANGED << args, part, yielded, error >>

\* first next(): lines 98-113
Begin ==
    /\ pc = "idle"
    /\ convert_to_seconds(length).num # 0
    /\ LET plen == convert_to_seconds(length)
           vlen == extract_video_info
           ratio == FDiv(vlen, plen)
           lo == FMul(fabs(FSub(ratio, FromInt(int(ratio)))), plen)
           total == PartsTotal(ratio, lo)
       IN  /\ part_len' = plen
           /\ video_len' = vlen
           /\ part_ratio' = ratio
           /\ leftover' = lo
           /\ parts_total' = total
           /\ termination' = Termination(lo, total, plen)
    /\ part' = 0
    /\ pc' = "running"
    /\ UNCHANGED << args, yielded, error >>

\* one iteration of the loop, lines 116-128
Yield ==
    /\ pc = "running"
    /\ part < parts_total
    /\ yielded' = Append(yielded,
                    << Start(part_len, part),
                       Stop(part_len, part, parts_total, termination),
                       ClipName(video_path, suffix, part, parts_total) >>)
    /\ part' = part + 1
    /\ UNCHANGED << pc, args, locals, error >>

\* range(parts_total) is exhausted: StopIteration
Return ==
    /\ pc = "running"
    /\ ~(part < parts_total)
    /\ pc' = "done"
    /\ UNCHANGED << args, locals, part, yielded, error >>

Next ==
    \/ BeginRaise /\ UNCHANGED restVars
    \/ Begin /\ UNCHANGED restVars
    \/ Yield /\ UNCHANGED restVars
    \/ Return /\ UNCHANGED restVars

Spec == Init /\ [][Next]_vars

(* ------------- generators of gen_split_part_info, interleaved ---------- *)

\* mutant: the local variables are module-level, one frame for all
FrameOf_shared(g) == 1

\* the frame that holds the local variables of generator g: every call of
\* a generator function creates a generator object with a frame of its own
FrameOf(g) == g

\* the planner variables stay as they are while the generators run
PlannerIdle ==
    /\ pc = "done"
    /\ video_path = CHOOSE v \in VideoPaths : TRUE
    /\ length = CHOOSE t \in TimeStamps : TRUE
    /\ suffix = "_part_"
    /\ duration = FromInt(0)
    /\ part_len = FromInt(0)
    /\ video_len = FromInt(0)
    /\ part_ratio = FromInt(0)
    /\ leftover = FromInt(0)
    /\ parts_total = 0
    /\ termination = None
    /\ part = 0
    /\ yielded = << >>
    /\ error = "None"

\* NumGens calls of gen_split_part_info: generator objects, nothing run yet
GensInit ==
    /\ gpc = [g \in GenIds |-> "idle"]
    /\ gargs \in [GenIds -> GenArgs]
    /\ frame = [g \in GenIds |-> NoFrame]
    /\ gout = [g \in GenIds |-> << >>]
    /\ gerr = [g \in GenIds |-> "None"]

\* first next() of generator g: lines 98-104 with a part length of zero
GenBeginRaise(g) ==
    /\ gpc[g] = "idle"
    /\ convert_to_seconds(gargs[g].length).num = 0
    /\ frame' = [frame EXCEPT ![FrameOf(g)] =
                    [@ EXCEPT !.part_len = convert_to_seconds(gargs[g].length),
                              !.video_len = gargs[g].duration]]
    /\ gerr' = [gerr EXCEPT ![g] = "ZeroDivisionError"]
    /\ gpc' = [gpc EXCEPT ![g] = "raised"]
    /\ UNCHANGED << gargs, gout >>

\* first next() of generator g: lines 98-113
GenBegin(g) ==
    /\ gpc[g] = "idle"
    /\ convert_to_seconds(gargs[g].length).num # 0
    /\ LET plen == convert_to_seconds(gargs[g].length)
           vlen == gargs[g].duration
           ratio == FDiv(vlen, plen)
           lo == FMul(fabs(FSub(ratio, FromInt(int(ratio)))), plen)
           total == PartsTotal(ratio, lo)
       IN  frame' = [frame EXCEPT ![FrameOf(g)] =
                        [ part_len |-> plen, video_len |-> vlen,
                          parts_total |-> total,
                          termination |-> Termination(lo, total, plen),
                          part |-> 0 ]]
    /\ gpc' = [gpc EXCEPT ![g] = "running"]
    /\ UNCHANGED << gargs, gout, gerr >>

\* a later next() of generator g: one iteration of the loop, lines 116-128
GenYield(g) ==
    /\ gpc[g] = "running"
    /\ LET f == frame[FrameOf(g)]
       IN  /\ f.part < f.parts_total
           /\ gout' = [gout EXCEPT ![g] = Append(@,
                         << Start(f.part_len, f.part),
                            Stop(f.part_len, f.part, f.parts_total,
                                 f.termination),
                            ClipName(gargs[g].video_path, gargs[g].suffix,
                                     f.part, f.parts_total) >>)]
           /\ frame' = [frame EXCEPT ![FrameOf(g)].part = f.part + 1]
    /\ UNCHANGED << gpc, gargs, gerr >>

\* a later next() of generator g: range(parts_total) is exhausted
GenReturn(g) ==
    /\ gpc[g] = "running"
    /\ ~(frame[FrameOf(g)].part < frame[FrameOf(g)].parts_total)
    /\ gpc' = [gpc EXCEPT ![g] = "done"]
    /\ UNCHANGED << gargs, frame, gout, gerr >>

InitGens == PlannerIdle /\ GensInit /\ CallsIdle /\ CliIdle

NextGens ==
    \/ \E g \in GenIds : GenBeginRaise(g) /\ UNCHANGED << plannerVars, callVars, cliVars >>
    \/ \E g \in GenIds : GenBegin(g) /\ UNCHANGED << plannerVars, callVars, cliVars >>
    \/ \E g \in GenIds : GenYield(g) /\ UNCHANGED << plannerVars, callVars, cliVars >>
    \/ \E g \in GenIds : GenReturn(g) /\ UNCHANGED << plannerVars, callVars, cliVars >>

SpecGens == InitGens /\ [][NextGens]_vars

(* ----------- calls of gen_split_part_info, one after the other --------- *)

\* the call that has just ended
ThisCall ==
    [ known |-> TRUE, no |-> ncalls,
      args |-> [ video_path |-> video_path, length |-> length,
                 suffix |-> suffix, duration |-> duration ],
      out |-> yielded, err |-> error ]

\* the generator has ended and gen_split_part_info is called again, as for
\* the next video of the split command; the ended call may be remembered
Recall ==
    /\ pc \in {"done", "raised"}
    /\ ncalls < MaxCalls
    /\ ncalls' = ncalls + 1
    /\ earlier' \in {earlier, ThisCall}
    /\ \E a \in GenArgs :
          /\ video_path' = a.video_path
          /\ length' = a.length
          /\ suffix' = a.suffix
          /\ duration' = a.duration
    /\ pc' = "idle"
    /\ yielded' = << >>
    /\ error' = "None"
    /\ UNCHANGED << locals, part >>

\* the first call, with the arguments of the later calls
InitCalls ==
    /\ PlannerInit
    /\ [ video_path |-> video_path, length |-> length, suffix |-> suffix,
         duration |-> duration ] \in GenArgs
    /\ GensIdle
    /\ CallsIdle
    /\ CliIdle

NextCalls ==
    \/ BeginRaise /\ UNCHANGED restVars
    \/ Begin /\ UNCHANGED restVars
    \/ Yield /\ UNCHANGED restVars
    \/ Return /\ UNCHANGED restVars
    \/ Recall /\ UNCHANGED << genVars, cliVars >>

SpecCalls == InitCalls /\ [][NextCalls]_vars

(* --------------------------- TimeStamp.convert ------------------------- *)

\* the characters a time stamp argument is written with
StampChars == { "0", "1", "6", ":", ".", "-", "x" }

Digits == { "0", "1", "6" }

DigitValue(c) == CASE c = "0" -> 0 [] c = "1" -> 1 [] c = "6" -> 6

\* the texts given as a time stamp argument
RawStamps == UNION { [1..n -> StampChars] : n \in 0..MaxStampLen }

\* converted.split(":")
RECURSIVE split(_, _)
split(text, sep) ==
    IF \A i \in 1..Len(text) : text[i] # sep THEN << text >>
    ELSE LET k == CHOOSE i \in 1..Len(text) :
                      text[i] = sep /\ \A j \in 1..(i - 1) : text[j] # sep
         IN  << SubSeq(text, 1, k - 1) >>
             \o split(SubSeq(text, k + 1, Len(text)), sep)

\* the text after an optional sign
Unsigned(text) ==
    IF text # << >> /\ text[1] = "-" THEN Tail(text) ELSE text

\* int(text) does not raise ValueError: an optional sign and digits
IsIntText(text) ==
    /\ Unsigned(text) # << >>
    /\ \A i \in 1..Len(Unsigned(text)) : Unsigned(text)[i] \in Digits

\* float(text) does not raise ValueError: an optional sign, digits with at
\* most one point, one digit at least
IsFloatText(text) ==
    LET body == Unsigned(text)
    IN  /\ \A i \in 1..Len(body) : body[i] \in Digits \cup { "." }
        /\ Cardinality({ i \in 1..Len(body) : body[i] = "." }) <= 1
        /\ \E i \in 1..Len(body) : body[i] \in Digits

\* the number written by a sequence of digits
RECURSIVE DigitsValue(_)
DigitsValue(ds) ==
    IF ds = << >> THEN 0
    ELSE 10 * DigitsValue(SubSeq(ds, 1, Len(ds) - 1)) + DigitValue(ds[Len(ds)])

RECURSIVE Pow10(_)
Pow10(k) == IF k = 0 THEN 1 ELSE 10 * Pow10(k - 1)

\* int(text), where IsIntText(text)
IntOfText(text) ==
    IF text[1] = "-" THEN -DigitsValue(Unsigned(text))
    ELSE DigitsValue(text)

\* float(text), where IsFloatText(text)
FloatOfText(text) ==
    LET body == Unsigned(text)
        ds == SelectSeq(body, LAMBDA c : c \in Digits)
        dot == { i \in 1..Len(body) : body[i] = "." }
        k == IF dot = {} THEN 0 ELSE Len(body) - (CHOOSE i \in dot : TRUE)
        sign == IF text[1] = "-" THEN -1 ELSE 1
    IN  Rat(sign * DigitsValue(ds), Pow10(k))

\* line 86: the text unpacks into hour, min, sec
HasThreeFields(text) == Len(split(text, ":")) = 3

\* lines 97-99: int(hour), int(min) and float(sec) raise no ValueError
HasNumericFields(fields) ==
    IsIntText(fields[1]) /\ IsIntText(fields[2]) /\ IsFloatText(fields[3])

\* mutant: only the seconds are held to the range
InRange_seconds_only(fields) == FGe(FromInt(60), FloatOfText(fields[3]))

\* line 110: int(min) <= 60 and float(sec) <= 60
InRange(fields) ==
    /\ IntOfText(fields[2]) <= 60
    /\ FGe(FromInt(60), FloatOfText(fields[3]))

\* a command with a time stamp argument is started
StampInit ==
    /\ ts_param \in { "start", "stop", "length" }
    /\ ts_raw \in RawStamps
    /\ ts_pc = "convert"
    /\ ts_value = << >>
    /\ ts_ran = FALSE
    /\ ts_exit = 0

\* self.fail(...): click reports a usage error and exits with code 2
StampFail ==
    /\ ts_pc' = "exit"
    /\ ts_exit' = 2
    /\ UNCHANGED << ts_param, ts_raw, ts_value, ts_ran >>

\* lines 84-93: the text does not unpack into three fields
StampFormatError ==
    /\ ts_pc = "convert"
    /\ ~HasThreeFields(ts_raw)
    /\ StampFail

\* lines 96-106: a field is not of the numeric type
StampTypeError ==
    /\ ts_pc = "convert"
    /\ HasThreeFields(ts_raw)
    /\ ~HasNumericFields(split(ts_raw, ":"))
    /\ StampFail

\* lines 109-117: the minute or the second is out of range
StampRangeError ==
    /\ ts_pc = "convert"
    /\ HasThreeFields(ts_raw)
    /\ HasNumericFields(split(ts_raw, ":"))
    /\ ~InRange(split(ts_raw, ":"))
    /\ StampFail

\* line 120: the converted text is returned and handed to the command
StampAccept ==
    /\ ts_pc = "convert"
    /\ HasThreeFields(ts_raw)
    /\ HasNumericFields(split(ts_raw, ":"))
    /\ InRange(split(ts_raw, ":"))
    /\ ts_value' = ts_raw
    /\ ts_pc' = "body"
    /\ UNCHANGED << ts_param, ts_raw, ts_ran, ts_exit >>

\* the body of the command runs and the process exits, with 0 or with the
\* code 1 of sys.exit(str(e))
StampBody ==
    /\ ts_pc = "body"
    /\ ts_ran' = TRUE
    /\ ts_exit' \in { 0, 1 }
    /\ ts_pc' = "exit"
    /\ UNCHANGED << ts_param, ts_raw, ts_value >>

InitStamp ==
    /\ PlannerIdle /\ GensIdle /\ CallsIdle
    /\ StampInit /\ PathIdle /\ CmdIdle /\ SeedIdle

NextStamp ==
    \/ StampFormatError /\ UNCHANGED << plannerVars, genVars, callVars, pathVars, cmdVars, seedVars >>
    \/ StampTypeError /\ UNCHANGED << plannerVars, genVars, callVars, pathVars, cmdVars, seedVars >>
    \/ StampRangeError /\ UNCHANGED << plannerVars, genVars, callVars, pathVars, cmdVars, seedVars >>
    \/ StampAccept /\ UNCHANGED << plannerVars, genVars, callVars, pathVars, cmdVars, seedVars >>
    \/ StampBody /\ UNCHANGED << plannerVars, genVars, callVars, pathVars, cmdVars, seedVars >>

SpecStamp == InitStamp /\ [][NextStamp]_vars

(* --------------------------- VideoPath.convert ------------------------- *)

\* the commands with a VideoPath argument
PathCommands ==
    { "clip", "list", "split", "copy", "convert", "random", "rename" }

\* the suffixes of the paths given: .mp4 .avi .MP4 .md and none
PathSuffixes ==
    { << ".", "m", "p", "4" >>, << ".", "a", "v", "i" >>,
      << ".", "M", "P", "4" >>, << ".", "m", "d" >>, << >> }

\* gen_video_extensions(): the video keys of moviepy's extensions_dict
VideoExtensions ==
    { << "m", "p", "4" >>, << "o", "g", "v" >>, << "w", "e", "b", "m" >>,
      << "a", "v", "i" >>, << "m", "o", "v" >> }

\* text.lstrip(".")
RECURSIVE lstrip(_)
lstrip(text) ==
    IF text # << >> /\ text[1] = "." THEN lstrip(Tail(text)) ELSE text

\* mutant: every command takes a directory
DirOkay_always(cmd) == TRUE

\* dir_okay of the VideoPath of the command: False for clip (line 161)
DirOkay(cmd) == cmd # "clip"

\* a command with a video path argument is started
PathInit ==
    /\ vp_cmd \in PathCommands
    /\ vp_kind \in { "missing", "file", "dir", "other" }
    /\ vp_readable \in BOOLEAN
    /\ vp_suffix \in PathSuffixes
    /\ vp_pc = "convert"
    /\ vp_ran = FALSE
    /\ vp_exit = 0

\* self.fail(...): click reports a usage error and exits with code 2
PathFail ==
    /\ vp_pc' = "exit"
    /\ vp_exit' = 2
    /\ UNCHANGED << vp_cmd, vp_kind, vp_readable, vp_suffix, vp_ran >>

\* line 39, click.Path(exists=True): the path does not exist
PathMissing ==
    /\ vp_pc = "convert"
    /\ vp_kind = "missing"
    /\ PathFail

\* line 39, click.Path(dir_okay=False): the path is a directory
PathIsDirectory ==
    /\ vp_pc = "convert"
    /\ vp_kind = "dir"
    /\ ~DirOkay(vp_cmd)
    /\ PathFail

\* line 39, click.Path(readable=True): the path cannot be read
PathUnreadable ==
    /\ vp_pc = "convert"
    /\ vp_kind # "missing"
    /\ vp_kind = "dir" => DirOkay(vp_cmd)
    /\ ~vp_readable
    /\ PathFail

\* lines 55-65: a file whose extension is no video extension
PathNotVideo ==
    /\ vp_pc = "convert"
    /\ vp_kind = "file"
    /\ vp_readable
    /\ lstrip(vp_suffix) \notin VideoExtensions
    /\ PathFail

\* line 68: the path is returned and handed to the command
PathAccept ==
    /\ vp_pc = "convert"
    /\ vp_kind # "missing"
    /\ vp_kind = "dir" => DirOkay(vp_cmd)
    /\ vp_readable
    /\ vp_kind = "file" => lstrip(vp_suffix) \in VideoExtensions
    /\ vp_pc' = "body"
    /\ UNCHANGED << vp_cmd, vp_kind, vp_readable, vp_suffix, vp_ran, vp_exit >>

\* the body of the command runs and the process exits, with 0 or with the
\* code 1 of sys.exit(str(e))
PathBody ==
    /\ vp_pc = "body"
    /\ vp_ran' = TRUE
    /\ vp_exit' \in { 0, 1 }
    /\ vp_pc' = "exit"
    /\ UNCHANGED << vp_cmd, vp_kind, vp_readable, vp_suffix >>

InitPath ==
    /\ PlannerIdle /\ GensIdle /\ CallsIdle
    /\ StampIdle /\ PathInit /\ CmdIdle /\ SeedIdle

NextPath ==
    \/ PathMissing /\ UNCHANGED << plannerVars, genVars, callVars, stampVars, cmdVars, seedVars >>
    \/ PathIsDirectory
          /\ UNCHANGED << plannerVars, genVars, callVars, stampVars, cmdVars, seedVars >>
    \/ PathUnreadable
          /\ UNCHANGED << plannerVars, genVars, callVars, stampVars, cmdVars, seedVars >>
    \/ PathNotVideo
          /\ UNCHANGED << plannerVars, genVars, callVars, stampVars, cmdVars, seedVars >>
    \/ PathAccept /\ UNCHANGED << plannerVars, genVars, callVars, stampVars, cmdVars, seedVars >>
    \/ PathBody /\ UNCHANGED << plannerVars, genVars, callVars, stampVars, cmdVars, seedVars >>

SpecPath == InitPath /\ [][NextPath]_vars

\* list(gen_split_part_info(...)) of a generator that runs alone: the
\* tuples of the parts k .. total-1, lines 116-128
RECURSIVE PartsFrom(_, _, _, _, _)
PartsFrom(a, plen, total, term, k) ==
    IF k >= total THEN << >>
    ELSE << << Start(plen, k), Stop(plen, k, total, term),
               ClipName(a.video_path, a.suffix, k, total) >> >>
         \o PartsFrom(a, plen, total, term, k + 1)

\* the sequence a generator with arguments a yields when it runs alone
PlanAlone(a) ==
    LET plen == convert_to_seconds(a.length)
        vlen == a.duration
        ratio == FDiv(vlen, plen)
        lo == FMul(fabs(FSub(ratio, FromInt(int(ratio)))), plen)
        total == PartsTotal(ratio, lo)
    IN  IF plen.num = 0 THEN << >>
        ELSE PartsFrom(a, plen, total, Termination(lo, total, plen), 0)

\* the exception a generator with arguments a ends in when it runs alone
ErrorAlone(a) ==
    IF convert_to_seconds(a.length).num = 0 THEN "ZeroDivisionError"
    ELSE "None"

(* ------------------------------ the commands --------------------------- *)

\* the names in the video tree that is given to the commands: a.mp4,
\* sub/b?.avi, sub/a.mp4 and notes.md
EntryA == [dir |-> "", stem |-> "a", ext |-> "mp4"]
EntryB == [dir |-> "sub", stem |-> "b?", ext |-> "avi"]
EntryC == [dir |-> "sub", stem |-> "a", ext |-> "mp4"]
EntryN == [dir |-> "", stem |-> "notes", ext |-> "md"]

Entries == { EntryA, EntryB, EntryC, EntryN }

\* the directory of the tree
RootDir == [dir |-> "", stem |-> ".", ext |-> ""]

\* gen_video_extensions(): the video keys of moviepy's extensions_dict, in
\* the order of the dict
gen_video_extensions == << "mp4", "ogv", "webm", "avi", "mov" >>

VideoExts == { gen_video_extensions[i] : i \in DOMAIN gen_video_extensions }

\* what can be at a name: sub/a.mp4 may be a directory, notes.md is a file
Kinds(e) ==
    IF e = EntryC THEN { "absent", "file", "dir" }
    ELSE IF e = EntryN THEN { "file" }
    ELSE { "absent", "file" }

\* clip.duration of the video files of the tree
CmdDurations == { Rat(d, Scale) : d \in 1..MaxCmdDuration }

\* the video trees: a video file has a duration
Trees ==
    { t \in [Entries -> [kind : { "absent", "file", "dir" },
                         dur : CmdDurations \cup { FromInt(0) }]] :
        \A e \in Entries :
            /\ t[e].kind \in Kinds(e)
            /\ (t[e].kind = "file" /\ e.ext \in VideoExts)
                   <=> t[e].dur # FromInt(0) }

\* the file systems a command starts in: the output directory is outside
\* the video tree, and is there or not
FileSystems ==
    [ tree : Trees, outdir : BOOLEAN, outfiles : { {} }, renamed : { {} } ]

\* pathlib's suffix and name of a path
Suffix(e) == "." \o e.ext

\* the video path arguments VideoPath.convert accepts: the directory, or a
\* file of it with a video extension (clip: a file only)
Targets(tree, cmd) ==
    { e \in Entries : tree[e].kind = "file" /\ e.ext \in VideoExts }
        \cup (IF cmd = "clip" THEN {} ELSE { RootDir })

\* video_dir.glob(f"**/*.{ext}"): what is named *.ext in the tree, at any
\* depth, files and directories alike
Glob(tree, ext) == { e \in Entries : tree[e].kind # "absent" /\ e.ext = ext }

\* the sequences without repetition of the elements of a set
Orders(S) ==
    { f \in [1..Cardinality(S) -> S] :
        \A i, j \in 1..Cardinality(S) : f[i] = f[j] => i = j }

ExtIndex(e) == CHOOSE i \in DOMAIN gen_video_extensions :
                   gen_video_extensions[i] = e.ext

\* the depth of a name below the directory of the tree
Depth(e) == IF e.dir = "" THEN 0 ELSE 1

\* gen_video_paths(video_dir): the globs of the extensions one after the
\* other; a glob yields the matches of a directory before those of its
\* sub-directories, and those of one directory in the order of its scan
gen_video_paths(tree) ==
    { f \in Orders(UNION { Glob(tree, x) : x \in VideoExts }) :
        \A i, j \in DOMAIN f :
            i < j => \/ ExtIndex(f[i]) < ExtIndex(f[j])
                     \/ /\ ExtIndex(f[i]) = ExtIndex(f[j])
                        /\ Depth(f[i]) <= Depth(f[j]) }

\* gen_video_paths_filter_ext(video_dir, ext): path.suffix != ext
gen_video_paths_filter_ext(tree, ext) ==
    { SelectSeq(f, LAMBDA e : Suffix(e) # ext) : f \in gen_video_paths(tree) }

\* random.sample(sequence, k): k elements of different positions, or
\* ValueError when k is negative or larger than the sequence
sample(sequence, k) ==
    IF k < 0 \/ k > Len(sequence) THEN { [err |-> "ValueError", out |-> << >>] }
    ELSE { [err |-> "None", out |-> [i \in 1..k |-> sequence[f[i]]]] :
             f \in { g \in [1..k -> DOMAIN sequence] :
                       \A i, j \in 1..k : g[i] = g[j] => i = j } }

\* an int given for an option that is None by default
IntOpt(k) == [kind |-> "int", val |-> k]

\* gen_random_video_paths(video_dir, seed, max_items): k is max_items, or
\* random.randint(0, len(sequence)) when max_items is None
gen_random_video_paths(tree, seed, max_items) ==
    UNION { IF max_items.kind # "None" THEN sample(f, max_items.val)
            ELSE UNION { sample(f, k) : k \in 0..Len(f) } :
            f \in gen_video_paths(tree) }

\* the options and arguments of every command, when not given
NoOptions ==
    [ long |-> FALSE,
      start |-> << >>, stop |-> << >>,
      length |-> << FromInt(0), FromInt(0), FromInt(0) >>, suffix |-> "_part_",
      extension |-> "mp4", all_extensions |-> FALSE,
      seed |-> None, max_items |-> None,
      append |-> "None", separator |-> "_", rlength |-> 16,
      pattern |-> "random" ]

\* time stamps TimeStamp.convert accepts, given to clip
ClipStamps == { << "0", ":", "0", ":", "1" >>, << "0", ":", "1", ":", "6" >> }

\* the options and arguments a command is given
Options(cmd) ==
    CASE cmd = "list" ->
           { [NoOptions EXCEPT !.long = l] : l \in BOOLEAN }
      [] cmd = "clip" ->
           { [NoOptions EXCEPT !.start = a, !.stop = b] :
               a \in ClipStamps, b \in ClipStamps }
      [] cmd = "split" ->
           { [NoOptions EXCEPT
                 !.length = << FromInt(0), FromInt(0), Rat(n, Scale) >>] :
               n \in 0..MaxCmdSecond }
      [] cmd = "copy" -> { NoOptions }
      [] cmd = "convert" ->
           { [NoOptions EXCEPT !.extension = x, !.all_extensions = a] :
               x \in { "mp4", "avi" }, a \in BOOLEAN }
      [] cmd = "random" ->
           { [NoOptions EXCEPT !.max_items = k] :
               k \in { None } \cup { IntOpt(n) : n \in 0..MaxItems } }
      [] cmd = "rename" ->
           { [NoOptions EXCEPT !.append = a, !.rlength = n] :
               a \in { "None", "prefix", "suffix" }, n \in 1..MaxRenameLength }
           \cup { [NoOptions EXCEPT !.pattern = "sanitize"] }

Commands == { "clip", "list", "split", "copy", "convert", "random", "rename" }

\* the commands that create their output directory (not list, not rename)
MkdirCommands == { "clip", "split", "copy", "convert", "random" }

\* click.echo(line), and a call that writes to the file system
Echo(line) == [ev |-> "echo", arg |-> line]
Call(f, a) == [ev |-> f, arg |-> a]

\* what a step of a command does: the lines and calls it adds to the log,
\* the file system it leaves, and whether it returned or raised
Outcome(l, f, ok) == [log |-> l, fs |-> f, ok |-> ok]

\* output_dir / name
OutPath(name) == [dir |-> "out", name |-> name]

\* a file is written to the output directory, over a file of that name
WriteOut(f, name, data) ==
    [f EXCEPT !.outfiles = { o \in @ : o.name # name }
                               \cup { [name |-> name, data |-> data] }]

\* mutant: the flag of main is not passed on
sync_main_flags_off(dry) == FALSE

\* sync_main_flags(ctx)[0]
sync_main_flags(dry) == dry

\* "".join(parts)
RECURSIVE join(_)
join(parts) == IF parts = << >> THEN << >> ELSE Head(parts) \o join(Tail(parts))

\* "{:10.2f}".format(x) for x >= 0, as hundredths
Format2f(x) == (200 * x.num + x.den) \div (2 * x.den)

\* the arguments split gives gen_split_part_info for the video m
PlannerArgs(opt, m, f) ==
    [ video_path |-> [stem |-> m.stem, suffix |-> Suffix(m)],
      length |-> opt.length, suffix |-> opt.suffix,
      duration |-> f.tree[m].dur ]

\* gen_split_part_info raises: the length is zero, or moviepy cannot read
\* the path as a video
PlanRaises(opt, m, f) ==
    \/ f.tree[m].kind # "file"
    \/ ErrorAlone(PlannerArgs(opt, m, f)) # "None"

\* mutant: the parts are cut last first
ClipCalls_descending(plan, m, n) ==
    [ i \in 1..n |->
        Call("create_clip",
             << plan[n + 1 - i][1], plan[n + 1 - i][2], m,
                OutPath(plan[n + 1 - i][3]) >>) ]

\* the first n calls of create_clip that split_video makes for a plan
ClipCalls(plan, m, n) ==
    [ i \in 1..n |->
        Call("create_clip",
             << plan[i][1], plan[i][2], m, OutPath(plan[i][3]) >>) ]

\* the files the first n calls of create_clip write
WriteParts(f, plan, m, n) ==
    [f EXCEPT !.outfiles =
        { o \in @ : \A i \in 1..n : o.name # plan[i][3] }
            \cup { [name |-> plan[i][3],
                    data |-> << "clip", m, plan[i][1], plan[i][2] >>] :
                     i \in 1..n }]

\* split_video(length, video_path, split_dir, suffix): create_clip for
\* every part of the plan, until one raises
split_video(opt, m, f) ==
    LET plan == PlanAlone(PlannerArgs(opt, m, f))
    IN  IF PlanRaises(opt, m, f) THEN { Outcome(<< >>, f, FALSE) }
        ELSE { Outcome(ClipCalls(plan, m, n), WriteParts(f, plan, m, n),
                       TRUE) : n \in { Len(plan) } }
             \cup { Outcome(ClipCalls(plan, m, n + 1),
                            WriteParts(f, plan, m, n), FALSE) :
                      n \in 0..(Len(plan) - 1) }

\* str(stop) in the line of a dry run: the text 'None' for None, and the
\* text itself for a text
str_stop(stop) ==
    IF stop.kind = "None" THEN [kind |-> "'None'", val |-> FromInt(0)] ELSE stop

\* mutant: the clip name is printed without the split directory
dry_run_split_cwd(opt, m, f) ==
    LET plan == PlanAlone(PlannerArgs(opt, m, f))
    IN  IF PlanRaises(opt, m, f) THEN { Outcome(<< >>, f, FALSE) }
        ELSE { Outcome([ i \in 1..Len(plan) |->
                           Echo(<< plan[i][1], str_stop(plan[i][2]),
                                   [dir |-> ".", name |-> plan[i][3]] >>) ],
                       f, TRUE) }

\* dry_run_split(length, video_path, split_dir, suffix): one line
\* f"{start:>10} {str(stop):>10} {clip_path}" for every part of the plan, as
\* the three texts of the line
dry_run_split(opt, m, f) ==
    LET plan == PlanAlone(PlannerArgs(opt, m, f))
    IN  IF PlanRaises(opt, m, f) THEN { Outcome(<< >>, f, FALSE) }
        ELSE { Outcome([ i \in 1..Len(plan) |->
                           Echo(<< plan[i][1], str_stop(plan[i][2]),
                                   OutPath(plan[i][3]) >>) ], f, TRUE) }

\* split, lines 365-376: one video of the loop
SplitItem(dry, opt, m, f, idx, total) ==
    { Outcome(<< Echo(<< "Splitting file #", idx + 1, "/", total >>) >>
                  \o o.log \o (IF o.ok THEN << Echo(<< >>) >> ELSE << >>),
              o.fs, o.ok) :
        o \in IF ~sync_main_flags(dry) THEN split_video(opt, m, f)
              ELSE dry_run_split(opt, m, f) }

\* clip, lines 176-182: clip_dir / "{stem}_clip_{start}_{stop}{suffix}",
\* start and stop without their colons
ClipPath(opt, m) ==
    OutPath(<< m.stem, "_clip_", join(split(opt.start, ":")), "_",
               join(split(opt.stop, ":")), Suffix(m) >>)

\* clip, lines 184-206: create_clip, or the path echoed in a dry run
ClipItem(dry, opt, m, f) ==
    LET call == Call("create_clip",
                     << opt.start, opt.stop, m, ClipPath(opt, m) >>)
    IN  IF ~sync_main_flags(dry)
        THEN { Outcome(<< call >>,
                       WriteOut(f, ClipPath(opt, m).name,
                                << "clip", m, opt.start, opt.stop >>), TRUE),
               Outcome(<< call >>, f, FALSE) }
        ELSE { Outcome(<< Echo(<< ClipPath(opt, m) >>) >>, f, TRUE) }

\* list, lines 241-271: one line for a path, with the duration when -l is
\* given; moviepy cannot read a directory
ListItem(opt, m, f) ==
    IF ~opt.long THEN { Outcome(<< Echo(<< m >>) >>, f, TRUE) }
    ELSE IF f.tree[m].kind # "file" THEN { Outcome(<< >>, f, FALSE) }
    ELSE { Outcome(<< Echo(<< Format2f(f.tree[m].dur), m >>) >>, f, TRUE) }

\* shutil.copy(src, output_dir): the file is written under its name, or
\* the copy raises (always for a directory)
shutil_copy(m, f) ==
    LET call == Call("copy", << m, OutPath(<< >>) >>)
    IN  { Outcome(<< call >>, f, FALSE) }
        \cup IF f.tree[m].kind # "file" THEN {}
             ELSE { Outcome(<< call >>,
                            WriteOut(f, << m.stem, Suffix(m) >>,
                                     << "copy", m >>), TRUE) }

\* debug_copy, debug_convert: pass
debug_pass(m, f) == { Outcome(<< >>, f, TRUE) }

\* copy, lines 434-439, and random, lines 621-626: one path of the loop
CopyItem(dry, line, m, f) ==
    { Outcome(<< Echo(line) >> \o o.log, o.fs, o.ok) :
        o \in IF ~sync_main_flags(dry) THEN shutil_copy(m, f)
              ELSE debug_pass(m, f) }

\* mutant: the converted file keeps the suffix of the source
convert_video_keeps_suffix(m, ext, f) ==
    LET call == Call("convert_video", << m, OutPath(<< >>), ext >>)
    IN  { Outcome(<< call >>, f, FALSE) }
        \cup IF f.tree[m].kind # "file" THEN {}
             ELSE { Outcome(<< call >>,
                            WriteOut(f, << m.stem, Suffix(m) >>,
                                     << "convert", m, ext >>), TRUE) }

\* convert_video(video_path, output_path, ext): the video is written to
\* output_path / "{stem}.{ext}", or moviepy raises
convert_video(m, ext, f) ==
    LET call == Call("convert_video", << m, OutPath(<< >>), ext >>)
    IN  { Outcome(<< call >>, f, FALSE) }
        \cup IF f.tree[m].kind # "file" THEN {}
             ELSE { Outcome(<< call >>,
                            WriteOut(f, << m.stem, ".", ext >>,
                                     << "convert", m, ext >>), TRUE) }

\* convert, lines 533-541: one path of the loop
ConvertItem(dry, opt, m, f) ==
    { Outcome(<< Echo(<< "Converting file ", m, " to ",
                         OutPath(<< m.stem, ".", opt.extension >>) >>) >>
                  \o o.log, o.fs, o.ok) :
        o \in IF ~sync_main_flags(dry) THEN convert_video(m, opt.extension, f)
              ELSE debug_pass(m, f) }

\* the text of k characters c
RECURSIVE Repeat(_, _)
Repeat(c, k) == IF k = 0 THEN "" ELSE c \o Repeat(c, k - 1)

\* secrets.token_hex(nbytes): 2 * nbytes hexadecimal digits; of the random
\* texts, the one of zeros and the one of f's
token_hex(nbytes) == { Repeat("0", 2 * nbytes), Repeat("f", 2 * nbytes) }

\* random_filename(file_path, tmplt, length), with the template rename
\* builds from --append and --separator
random_filename(m, opt) ==
    { [dir |-> m.dir,
       name |-> CASE opt.append = "prefix" ->
                       << t, opt.separator, m.stem, Suffix(m) >>
                  [] opt.append = "suffix" ->
                       << m.stem, opt.separator, t, Suffix(m) >>
                  [] OTHER -> << t, Suffix(m) >>] :
        t \in token_hex(opt.rlength \div 2) }

\* pathvalidate.sanitize_filename on the stems of the tree: "?" is removed
sanitize_filename(stem) == IF stem = "b?" THEN "b" ELSE stem

\* sanitized_filename(file_path)
sanitized_filename(m) ==
    { [dir |-> m.dir, name |-> << sanitize_filename(m.stem), Suffix(m) >>] }

\* shutil.move(src, dst): the file or directory gets the new name, over a
\* file of that name, or the move raises; nothing moves when dst is src
shutil_move(m, dst, f) ==
    LET call == Call("move", << m, dst >>)
        moved == [f EXCEPT
                    !.tree[m] = [kind |-> "absent", dur |-> FromInt(0)],
                    !.renamed =
                        { r \in @ : r.dir # dst.dir \/ r.name # dst.name }
                            \cup { [dir |-> dst.dir, name |-> dst.name,
                                    data |-> << m, f.tree[m] >>] }]
    IN  IF dst = [dir |-> m.dir, name |-> << m.stem, Suffix(m) >>]
        THEN { Outcome(<< call >>, f, TRUE) }
        ELSE { Outcome(<< call >>, moved, TRUE),
               Outcome(<< call >>, f, FALSE) }

\* debug_rename(src, dst)
debug_rename(m, dst, f) ==
    { Outcome(<< Echo(<< "Renaming: ", m, " -> ", dst >>) >>, f, TRUE) }

\* rename, lines 722-727: one path of the loop
RenameItem(dry, opt, m, f) ==
    UNION { IF ~sync_main_flags(dry) THEN shutil_move(m, dst, f)
            ELSE debug_rename(m, dst, f) :
            dst \in IF opt.pattern = "random" THEN random_filename(m, opt)
                    ELSE sanitized_filename(m) }

\* one path of the loop of a command
Item(cmd, dry, opt, m, f, idx, total) ==
    CASE cmd = "clip" -> ClipItem(dry, opt, m, f)
      [] cmd = "list" -> ListItem(opt, m, f)
      [] cmd = "split" -> SplitItem(dry, opt, m, f, idx, total)
      [] cmd = "copy" ->
           CopyItem(dry, << "Copying file: ", m, " -> ", OutPath(<< >>) >>,
                    m, f)
      [] cmd = "convert" -> ConvertItem(dry, opt, m, f)
      [] cmd = "random" -> CopyItem(dry, << m >>, m, f)
      [] cmd = "rename" -> RenameItem(dry, opt, m, f)

\* a command starts, its arguments converted
CmdInit ==
    /\ c_cmd \in Commands
    /\ c_dry \in BOOLEAN
    /\ c_opt \in Options(c_cmd)
    /\ fs \in FileSystems
    /\ c_target \in Targets(fs.tree, c_cmd)
    /\ fs0 = fs
    /\ c_pc = "mkdir"
    /\ c_vids = << >>
    /\ c_idx = 0
    /\ c_log = << >>
    /\ c_exit = 0
    /\ c_end = "running"

\* "if not dry_run: if not output_dir.exists():" is reached and holds
MustMkdir ==
    /\ c_cmd \in MkdirCommands
    /\ ~sync_main_flags(c_dry)
    /\ ~fs.outdir

\* output_dir.mkdir(parents=True, exist_ok=True)
CmdMkdir ==
    /\ c_pc = "mkdir"
    /\ MustMkdir
    /\ fs' = [fs EXCEPT !.outdir = TRUE]
    /\ c_log' = Append(c_log, Call("mkdir", << OutPath(<< >>) >>))
    /\ c_pc' = "discover"
    /\ UNCHANGED << c_cmd, c_dry, c_opt, c_target, fs0, c_vids, c_idx, c_exit,
                    c_end >>

\* mkdir raises PermissionError: sys.exit(str(e))
CmdMkdirDenied ==
    /\ c_pc = "mkdir"
    /\ MustMkdir
    /\ c_log' = Append(c_log, Call("mkdir", << OutPath(<< >>) >>))
    /\ c_pc' = "exit"
    /\ c_exit' = 1
    /\ c_end' = "sys.exit"
    /\ UNCHANGED << c_cmd, c_dry, c_opt, c_target, fs, fs0, c_vids, c_idx >>

\* no directory is to be created
CmdNoMkdir ==
    /\ c_pc = "mkdir"
    /\ ~MustMkdir
    /\ c_pc' = "discover"
    /\ UNCHANGED << c_cmd, c_dry, c_opt, c_target, fs, fs0, c_vids, c_idx,
                    c_log, c_exit, c_end >>

\* the path generator of the command: the file itself when the argument
\* is a file, and the discovery of the command otherwise
PathGenerator ==
    IF c_target \in Entries
    THEN { [err |-> "None", out |-> << c_target >>] }
    ELSE CASE c_cmd = "random" ->
                gen_random_video_paths(fs.tree, c_opt.seed, c_opt.max_items)
           [] c_cmd = "convert" /\ ~c_opt.all_extensions ->
                { [err |-> "None", out |-> v] :
                    v \in gen_video_paths_filter_ext(fs.tree, c_opt.extension) }
           [] OTHER ->
                { [err |-> "None", out |-> v] : v \in gen_video_paths(fs.tree) }

\* the line convert prints before its loop (line 530)
Header ==
    IF c_cmd = "convert"
    THEN << Echo(<< "Converted files will be written to: ", OutPath(<< >>) >>) >>
    ELSE << >>

\* the path generator yields its paths
CmdDiscover ==
    /\ c_pc = "discover"
    /\ \E g \in PathGenerator :
         /\ g.err = "None"
         /\ c_vids' = g.out
    /\ c_log' = c_log \o Header
    /\ c_pc' = "loop"
    /\ UNCHANGED << c_cmd, c_dry, c_opt, c_target, fs, fs0, c_idx, c_exit,
                    c_end >>

\* the path generator raises, and the command ends in a traceback
CmdDiscoverRaise ==
    /\ c_pc = "discover"
    /\ \E g \in PathGenerator : g.err # "None"
    /\ c_log' = c_log \o Header
    /\ c_pc' = "exit"
    /\ c_exit' = 1
    /\ c_end' = "traceback"
    /\ UNCHANGED << c_cmd, c_dry, c_opt, c_target, fs, fs0, c_vids, c_idx >>

\* one path of the loop is processed
CmdItem ==
    /\ c_pc = "loop"
    /\ c_idx < Len(c_vids)
    /\ \E o \in Item(c_cmd, c_dry, c_opt, c_vids[c_idx + 1], fs, c_idx,
                     Len(c_vids)) :
         /\ o.ok
         /\ c_log' = c_log \o o.log
         /\ fs' = o.fs
    /\ c_idx' = c_idx + 1
    /\ UNCHANGED << c_cmd, c_dry, c_opt, c_target, fs0, c_pc, c_vids, c_exit,
                    c_end >>

\* mutant: clip has no try block around create_clip
RaiseEnd_not_handled(cmd) == "traceback"

\* how an exception in the processing of a path ends the command: clip
\* catches BaseException and calls sys.exit(str(e)) (lines 195-201), the
\* other commands have no handler
RaiseEnd(cmd) == IF cmd = "clip" THEN "sys.exit" ELSE "traceback"

\* the processing of a path raises
CmdItemRaise ==
    /\ c_pc = "loop"
    /\ c_idx < Len(c_vids)
    /\ \E o \in Item(c_cmd, c_dry, c_opt, c_vids[c_idx + 1], fs, c_idx,
                     Len(c_vids)) :
         /\ ~o.ok
         /\ c_log' = c_log \o o.log
         /\ fs' = o.fs
    /\ c_pc' = "exit"
    /\ c_exit' = 1
    /\ c_end' = RaiseEnd(c_cmd)
    /\ UNCHANGED << c_cmd, c_dry, c_opt, c_target, fs0, c_vids, c_idx >>

\* the loop is over and the command returns
CmdDone ==
    /\ c_pc = "loop"
    /\ c_idx = Len(c_vids)
    /\ c_pc' = "exit"
    /\ c_end' = "return"
    /\ UNCHANGED << c_cmd, c_dry, c_opt, c_target, fs, fs0, c_vids, c_idx,
                    c_log, c_exit >>

InitCmd ==
    /\ PlannerIdle /\ GensIdle /\ CallsIdle
    /\ StampIdle /\ PathIdle /\ CmdInit /\ SeedIdle

NextCmd ==
    \/ CmdMkdir
         /\ UNCHANGED << plannerVars, genVars, callVars, stampVars, pathVars,
                         seedVars >>
    \/ CmdMkdirDenied
         /\ UNCHANGED << plannerVars, genVars, callVars, stampVars, pathVars,
                         seedVars >>
    \/ CmdNoMkdir
         /\ UNCHANGED << plannerVars, genVars, callVars, stampVars, pathVars,
                         seedVars >>
    \/ CmdDiscover
         /\ UNCHANGED << plannerVars, genVars, callVars, stampVars, pathVars,
                         seedVars >>
    \/ CmdDiscoverRaise
         /\ UNCHANGED << plannerVars, genVars, callVars, stampVars, pathVars,
                         seedVars >>
    \/ CmdItem
         /\ UNCHANGED << plannerVars, genVars, callVars, stampVars, pathVars,
                         seedVars >>
    \/ CmdItemRaise
         /\ UNCHANGED << plannerVars, genVars, callVars, stampVars, pathVars,
                         seedVars >>
    \/ CmdDone
         /\ UNCHANGED << plannerVars, genVars, callVars, stampVars, pathVars,
                         seedVars >>

SpecCmd == InitCmd /\ [][NextCmd]_vars

(* --------------- gen_random_video_paths and the generator -------------- *)

\* the names of the tree that a glob of the video extensions can yield
VideoNames == { e \in Entries : e.ext \in VideoExts }

\* what the state of the generator decides in a call: the number randint
\* draws from, and the order sample takes the positions in
Streams ==
    [ u : 0..Cardinality(VideoNames),
      p : Orders(1..Cardinality(VideoNames)) ]

\* the trees of the calls: the durations play no part
SeedTrees ==
    { t \in Trees :
        \A e \in Entries : t[e].dur \in { FromInt(0), Rat(1, Scale) } }

\* --seed and --max-items: None, or an int
Seeds == { None } \cup { IntOpt(n) : n \in 1..MaxSeed }
Items == { None } \cup { IntOpt(n) : n \in 0..MaxItems }

\* the states random.seed(a) has put the generator in, for the seed a
SeenFor(a, table) == { q[2] : q \in { r \in table : r[1] = a } }

\* mutant: the generator is left in the state it is in
random_seed_not_called(a, old, table) == { old }

\* random.seed(a): the state of the generator is a function of a; it is
\* taken from the entropy of the system when a is None
random_seed(a, old, table) ==
    IF a.kind = "None" THEN Streams
    ELSE IF SeenFor(a.val, table) # {} THEN SeenFor(a.val, table)
    ELSE Streams

\* random.randint(0, n) in the state s of the generator
randint(s, n) == s.u % (n + 1)

\* random.sample(sequence, k) in the state s of the generator
sample_in(s, sequence, k) ==
    LET positions == SelectSeq(s.p, LAMBDA x : x <= Len(sequence))
    IN  IF k < 0 \/ k > Len(sequence)
        THEN [err |-> "ValueError", out |-> << >>]
        ELSE [err |-> "None", out |-> [i \in 1..k |-> sequence[positions[i]]]]

\* the first call, in a process whose generator is in any state
SeedInit ==
    /\ rng \in Streams
    /\ seen = {}
    /\ rs_tree \in SeedTrees
    /\ rs_seed \in Seeds
    /\ rs_k \in Items
    /\ rs_pc = "start"
    /\ rs_out = << >>
    /\ rs_err = "None"
    /\ rs_prev = [seed |-> None, k |-> None, out |-> << >>, err |-> "None"]
    /\ rs_run = 1

\* line 76: random.seed(a=seed)
RsSeed ==
    /\ rs_pc = "start"
    /\ rng' \in random_seed(rs_seed, rng, seen)
    /\ seen' = IF rs_seed.kind = "None" THEN seen
               ELSE seen \cup { << rs_seed.val, rng' >> }
    /\ rs_pc' = "sample"
    /\ UNCHANGED << rs_tree, rs_seed, rs_k, rs_out, rs_err, rs_prev, rs_run >>

\* lines 79-85: the sequence, k and the sample
RsSample ==
    /\ rs_pc = "sample"
    /\ \E sequence \in gen_video_paths(rs_tree) :
         LET k == IF rs_k.kind # "None" THEN rs_k.val
                  ELSE randint(rng, Len(sequence))
             r == sample_in(rng, sequence, k)
         IN  /\ rs_out' = r.out
             /\ rs_err' = r.err
    /\ rs_pc' = "done"
    /\ UNCHANGED << rng, seen, rs_tree, rs_seed, rs_k, rs_prev, rs_run >>

\* the process uses the generator for something else and then makes a
\* second call, over the same tree
RsAgain ==
    /\ rs_pc = "done"
    /\ rs_run = 1
    /\ rs_prev' = [seed |-> rs_seed, k |-> rs_k, out |-> rs_out,
                   err |-> rs_err]
    /\ rng' \in Streams
    /\ rs_seed' \in Seeds
    /\ rs_k' \in Items
    /\ rs_pc' = "start"
    /\ rs_out' = << >>
    /\ rs_err' = "None"
    /\ rs_run' = 2
    /\ UNCHANGED << seen, rs_tree >>

InitSeed ==
    /\ PlannerIdle /\ GensIdle /\ CallsIdle
    /\ StampIdle /\ PathIdle /\ CmdIdle /\ SeedInit

NextSeed ==
    \/ RsSeed
         /\ UNCHANGED << plannerVars, genVars, callVars, stampVars, pathVars,
                         cmdVars >>
    \/ RsSample
         /\ UNCHANGED << plannerVars, genVars, callVars, stampVars, pathVars,
                         cmdVars >>
    \/ RsAgain
         /\ UNCHANGED << plannerVars, genVars, callVars, stampVars, pathVars,
                         cmdVars >>

SpecSeed == InitSeed /\ [][NextSeed]_vars

(* ----------------- reading a plan back, for the properties ------------- *)

Finished == pc = "done"

Started == pc # "idle"

\* the generator has ended, by StopIteration or by an exception
Ended == pc \in {"done", "raised"}

IsPositive(x) == x.num > 0

IsNegative(x) == x.num < 0

\* the inputs are those of the data model: Duration >= 0, PartLength > 0
ValidInputs == ~IsNegative(video_len) /\ IsPositive(part_len)

Count == Len(yielded)

SegStart(i) == yielded[i][1].val

HasEnd(i) == yielded[i][2].kind = "str"

\* the end of segment i, an absent end meaning the end of the source
EffEnd(i) == IF HasEnd(i) THEN yielded[i][2].val ELSE video_len

SegIndex(i) == yielded[i][3][4]

SegTotal(i) == yielded[i][3][6]

\* duration / partLength = RatioNum / RatioDen in integers, RatioDen > 0
\* when the part length is positive
RatioNum == video_len.num * part_len.den

RatioDen == video_len.den * part_len.num

FloorRatio == RatioNum \div RatioDen

CeilRatio == (RatioNum + RatioDen - 1) \div RatioDen

\* leftover = (ratio - floor(ratio)) * partLength
\*          = LeftoverNum / LeftoverDen seconds
LeftoverNum == RatioNum - FloorRatio * RatioDen

LeftoverDen == video_len.den * part_len.den

LeftoverAtLeast1 == LeftoverNum >= LeftoverDen

\* consecutive segments touch: no gap and no overlap between them
Contiguous == \A i \in 2..Count : SegStart(i) = EffEnd(i - 1)

(* ------------------------------ C1 ------------------------------------- *)

\* C1: for every duration > 0 and part length > 0 the segments of the
\* finished plan, the final end taken as the duration, partition
\* [0, duration): the plan is non-empty, the first start is 0, every later
\* start is the previous end, and every start is below the duration.
C1_Partition ==
    (Finished /\ IsPositive(video_len) /\ IsPositive(part_len)) =>
        /\ Count >= 1
        /\ SegStart(1) = FromInt(0)
        /\ \A i \in 2..Count : SegStart(i) = yielded[i - 1][2].val
        /\ \A i \in 1..(Count - 1) : HasEnd(i)
        /\ \A i \in 1..Count : FLt(SegStart(i), video_len)

(* ------------------------------ C2 ------------------------------------- *)

\* the end of the covered part of the timeline
CoverEnd == IF Count = 0 THEN FromInt(0) ELSE EffEnd(Count)

\* C2 as claimed, for the non-empty plans: the declared ranges of a finished
\* plan exactly cover [0, duration), and a declared end of the last segment
\* is the duration.
C2_ExactCover ==
    (Finished /\ ValidInputs /\ Count >= 1) =>
        /\ SegStart(1) = FromInt(0)
        /\ Contiguous
        /\ CoverEnd = video_len

\* C2 as amended: the declared ranges of a finished plan are contiguous from
\* 0 and cover the timeline up to a trailing remainder shorter than one
\* second; a declared end of the last segment is total * partLength, which
\* is the duration minus the leftover.
C2_CoverUpToLeftover ==
    (Finished /\ ValidInputs) =>
        /\ Count >= 1 => SegStart(1) = FromInt(0)
        /\ \A i \in 1..Count : FLt(SegStart(i), EffEnd(i))
        /\ Contiguous
        /\ FGe(video_len, CoverEnd)
        /\ FLt(FSub(video_len, CoverEnd), FromInt(1))
        /\ (Count >= 1 /\ HasEnd(Count)) =>
              /\ CoverEnd = FMul(FromInt(Count), part_len)
              /\ FSub(video_len, CoverEnd) = Rat(LeftoverNum, LeftoverDen)

\* a finished plan of two or more segments that drops a sub-second remainder
C2_Witness ==
    /\ Finished /\ ValidInputs
    /\ Count >= 2
    /\ HasEnd(Count)
    /\ FLt(CoverEnd, video_len)

(* ------------------------------ C3 ------------------------------------- *)

\* C3: for every duration > 0 and part length above the duration, the
\* finished plan is exactly one segment, 1 of 1, from 0 through the whole
\* source.
C3_SingleSegment ==
    (Finished /\ IsPositive(video_len) /\ FLt(video_len, part_len)) =>
        /\ Count = 1
        /\ SegIndex(1) = 1
        /\ SegTotal(1) = 1
        /\ SegStart(1) = FromInt(0)
        /\ FGe(EffEnd(1), video_len)

(* ------------------------------ C4 ------------------------------------- *)

\* C4: for every part length <= 0 planning ends in InvalidArgument, without
\* a division by zero and without a segment.
C4_InvalidArgument ==
    (Ended /\ ~IsPositive(part_len) /\ ~IsNegative(video_len)) =>
        /\ pc = "raised"
        /\ error = "InvalidArgument"
        /\ yielded = << >>

(* ------------------------------ C5 ------------------------------------- *)

\* C5: for every negative duration with a positive part length planning
\* ends in InvalidArgument and no plan; InvalidArgument is reported for no
\* other input than a non-positive part length or a negative duration.
C5_NegativeDuration ==
    /\ (Ended /\ IsNegative(video_len) /\ IsPositive(part_len)) =>
          /\ pc = "raised"
          /\ error = "InvalidArgument"
          /\ yielded = << >>
    /\ error = "InvalidArgument" =>
          (~IsPositive(part_len) \/ IsNegative(video_len))

(* ------------------------------ C6 ------------------------------------- *)

\* C6: for duration 0 and every part length > 0 the planner raises no error
\* and yields no segment: the finished plan is the empty sequence.
C6_ZeroDuration ==
    (Started /\ video_len = FromInt(0) /\ IsPositive(part_len)) =>
        /\ pc # "raised"
        /\ error = "None"
        /\ yielded = << >>
        /\ part = 0

\* a plan of a zero duration has finished, empty
C6_Witness ==
    /\ Finished
    /\ video_len = FromInt(0)
    /\ IsPositive(part_len)
    /\ yielded = << >>

(* ------------------------------ C7 ------------------------------------- *)

C8_PinnedEnd ==
    (Finished /\ ValidInputs /\ ~LeftoverAtLeast1 /\ Count >= 1) =>
        /\ HasEnd(Count)
        /\ yielded[Count][2].val = FMul(FromInt(Count), part_len)
        /\ yielded[Count][2] = str(FMul(part_len, FromInt((Count - 1) + 1)))
        /\ SegTotal(Count) = Count
        /\ Count = FloorRatio
        /\ FGe(video_len, yielded[Count][2].val)

\* two segments (0, L) and (L, 2L) for a duration of 2L plus a remainder
\* strictly between 0 and 1 second, as for duration 20.3 and length 10
C8_Witness ==
    /\ Finished /\ ValidInputs
    /\ LeftoverNum > 0 /\ ~LeftoverAtLeast1
    /\ Count = 2
    /\ yielded[1][1] = str(FromInt(0)) /\ yielded[1][2] = str(part_len)
    /\ yielded[2][1] = str(part_len)
    /\ yielded[2][2] = str(FMul(FromInt(2), part_len))

(* ------------------------------ C9 ------------------------------------- *)

\* the duration is an exact multiple of the part length
ExactMultiple == part_len.num # 0 /\ LeftoverNum = 0

C10_IndexAndTotal ==
    /\ \A i \in 1..Count : SegIndex(i) = i /\ SegTotal(i) = SegTotal(1)
    /\ (Finished /\ Count >= 1) => SegTotal(1) = Count

\* a finished plan of three or more segments
C10_Witness == Finished /\ Count >= 3

(* ------------------------------ C11 ------------------------------------ *)

\* C11: in every plan of a part length > 0 the segment of index i starts at
\* partLength * (i - 1), every non-final segment is exactly partLength long,
\* and the effective length of the final segment of a finished plan (its
\* declared end, or the duration when the end is absent, minus its start)
\* is above 0 and at most partLength.
C11_MaxLength ==
    IsPositive(part_len) =>
        /\ \A i \in 1..Count :
              SegStart(i) = FMul(part_len, FromInt(i - 1))
        /\ \A i \in 1..Count :
              i # parts_total =>
                  /\ HasEnd(i)
                  /\ FSub(EffEnd(i), SegStart(i)) = part_len
        /\ (Finished /\ Count >= 1) =>
              /\ IsPositive(FSub(EffEnd(Count), SegStart(Count)))
              /\ FGe(part_len, FSub(EffEnd(Count), SegStart(Count)))

\* a finished plan whose final segment runs through the end of the source
\* and is shorter than the part length
C11_Witness ==
    /\ Finished /\ IsPositive(part_len)
    /\ Count >= 2
    /\ ~HasEnd(Count)
    /\ FLt(FSub(EffEnd(Count), SegStart(Count)), part_len)

(* ------------------------------ C12 ------------------------------------ *)

\* the name of segment i, as the string handed to the caller
SegName(i) == Format(yielded[i][3])

\* C12: the name of the segment of index i is exactly
\* "{stem}_{suffix}{i}_of_{total}{extension}", from the stem and the
\* extension of the source file, and the names of the segments of one plan
\* are pairwise distinct.
C12_Names ==
    /\ \A i \in 1..Count :
          SegName(i) = video_path.stem \o "_" \o suffix \o ToString(i)
                          \o "_of_" \o ToString(parts_total)
                          \o video_path.suffix
    /\ \A i, j \in 1..Count : i # j => SegName(i) # SegName(j)

\* a finished plan of three or more names, with the empty suffix token
C12_Witness ==
    /\ Finished
    /\ Count >= 3
    /\ suffix = ""
    /\ SegName(3) = video_path.stem \o "_3_of_" \o ToString(Count)
                       \o video_path.suffix

(* ------------------------------ C14 ------------------------------------ *)

\* C14: an invocation that ends in an error has yielded no segment before
\* the error, and an invocation that ends without an error has yielded its
\* complete plan, one segment for each part of range(parts_total).
C14_AllOrNothing ==
    /\ (pc = "raised" \/ error # "None") => yielded = << >>
    /\ Finished =>
          /\ error = "None"
          /\ Count = (IF parts_total > 0 THEN parts_total ELSE 0)

\* an invocation has ended in an error, with nothing yielded
C14_Witness ==
    /\ pc = "raised"
    /\ error = "ZeroDivisionError"
    /\ yielded = << >>

(* ------------------------------ C13 ------------------------------------ *)

\* C13: a call that has ended with the arguments and the duration of an
\* earlier call has yielded the sequence of (start, end, name) the earlier
\* call yielded, and ended the way it ended, whatever calls came in between.
C13_Deterministic ==
    (Ended /\ earlier.known /\ earlier.args = ThisCall.args) =>
        /\ yielded = earlier.out
        /\ error = earlier.err

\* the third call has ended with the arguments of the first call, a call
\* in between, and with the plan of two or more segments of the first call
C13_Witness ==
    /\ Finished
    /\ ncalls = 3
    /\ earlier.known
    /\ earlier.no = 1
    /\ earlier.args = ThisCall.args
    /\ Len(earlier.out) >= 2
    /\ yielded = earlier.out

(* ------------------------------ C15 ------------------------------------ *)

\* s is a prefix of t
IsPrefix(s, t) == Len(s) <= Len(t) /\ s = SubSeq(t, 1, Len(s))

\* C15: whatever the interleaving of the steps of the generators, each
\* generator has yielded a prefix of the sequence it yields when it runs
\* alone, all of that sequence once it has finished, and it ends in the
\* exception it ends in when it runs alone.
C15_NoInterference ==
    \A g \in GenIds :
        /\ IsPrefix(gout[g], PlanAlone(gargs[g]))
        /\ gpc[g] = "done" =>
              gout[g] = PlanAlone(gargs[g]) /\ gerr[g] = "None"
        /\ gpc[g] = "raised" =>
              gout[g] = << >> /\ gerr[g] = ErrorAlone(gargs[g])

\* two generators of different arguments, both part way through their plans
C15_Witness ==
    \E g, h \in GenIds :
        /\ g # h
        /\ gargs[g] # gargs[h]
        /\ gpc[g] = "running" /\ gpc[h] = "running"
        /\ Len(gout[g]) >= 1 /\ Len(gout[g]) < Len(PlanAlone(gargs[g]))
        /\ Len(gout[h]) >= 1 /\ Len(gout[h]) < Len(PlanAlone(gargs[h]))

(* ------------------------------ C16 ------------------------------------ *)

\* the number of colons of the text
Colons(text) == Cardinality({ i \in 1..Len(text) : text[i] = ":" })

\* the text is no acceptable time stamp: not three colon-separated fields,
\* an hour or a minute that is no integer, a second that is no number, or a
\* minute or a second above 60
BadStamp(text) ==
    \/ Colons(text) # 2
    \/ LET f == split(text, ":")
       IN  \/ ~IsIntText(f[1])
           \/ ~IsIntText(f[2])
           \/ ~IsFloatText(f[3])
           \/ IntOfText(f[2]) > 60
           \/ FLt(FromInt(60), FloatOfText(f[3]))

\* C16: once a time stamp argument is converted, a text that is no
\* acceptable time stamp has ended the process with exit code 2 and the
\* body of the command has not run; any other text is handed to the command
\* unchanged.
C16_TimeStamp ==
    ts_pc # "convert" =>
        IF BadStamp(ts_raw)
        THEN ts_pc = "exit" /\ ts_exit = 2 /\ ~ts_ran
        ELSE ts_value = ts_raw /\ (ts_pc = "body" \/ ts_ran)

\* the minute 61 of "0:61:0" is rejected with exit code 2
C16_Witness ==
    /\ ts_raw = << "0", ":", "6", "1", ":", "0" >>
    /\ ts_pc = "exit"
    /\ ts_exit = 2
    /\ ~ts_ran

(* ------------------------------ C17 ------------------------------------ *)

\* the commands the claim is about
C17_Commands == { "clip", "list", "split", "copy", "convert" }

\* the extension of the path is a known video extension
KnownVideoSuffix ==
    vp_suffix # << >> /\ vp_suffix[1] = "." /\ Tail(vp_suffix) \in VideoExtensions

PathRejected == vp_pc = "exit" /\ vp_exit = 2 /\ ~vp_ran

PathAccepted == vp_pc = "body" \/ vp_ran

\* C17 as claimed, for the readable paths: a path that does not exist, or a
\* regular file whose extension is no known video extension, is rejected
\* with exit code 2 before the body of the command runs; a directory or a
\* file with a known video extension is accepted.
C17_AsClaimed ==
    (vp_cmd \in C17_Commands /\ vp_pc # "convert" /\ vp_readable) =>
        /\ (vp_kind = "missing" \/ (vp_kind = "file" /\ ~KnownVideoSuffix))
              => PathRejected
        /\ (vp_kind = "dir" \/ (vp_kind = "file" /\ KnownVideoSuffix))
              => PathAccepted

\* C17 as amended: a path that does not exist, or a regular file whose
\* extension is no known video extension, is rejected with exit code 2
\* before the body of the command runs; a readable file with a known video
\* extension is accepted; a readable directory is accepted by list, split,
\* copy and convert and rejected with exit code 2 by clip; an unreadable
\* path is rejected with exit code 2.
C17_VideoPath ==
    (vp_cmd \in C17_Commands /\ vp_pc # "convert") =>
        /\ (vp_kind = "missing" \/ (vp_kind = "file" /\ ~KnownVideoSuffix))
              => PathRejected
        /\ (vp_kind = "file" /\ KnownVideoSuffix /\ vp_readable)
              => PathAccepted
        /\ (vp_kind = "dir" /\ vp_readable /\ vp_cmd # "clip")
              => PathAccepted
        /\ (vp_kind = "dir" /\ vp_cmd = "clip") => PathRejected
        /\ (vp_kind # "missing" /\ ~vp_readable) => PathRejected

\* clip has rejected a readable directory with exit code 2
C17_Witness ==
    /\ vp_cmd = "clip"
    /\ vp_kind = "dir"
    /\ vp_readable
    /\ PathRejected

(* ------------------------------ C18 ------------------------------------ *)

\* the commands with a dry run
C18_Commands == { "clip", "split", "copy", "convert", "random", "rename" }

\* C18: with the dry-run flag set, clip, split, copy, convert, random and
\* rename create no directory and create, copy, convert, move or overwrite
\* no file: at every step the file system is the one the command started in.
C18_DryRun ==
    (c_cmd \in C18_Commands /\ c_dry) => fs = fs0

\* a dry-run split of a directory has gone through two videos
C18_Witness ==
    /\ c_cmd = "split"
    /\ c_dry
    /\ c_pc = "exit"
    /\ c_exit = 0
    /\ c_idx = 2
    /\ ~fs.outdir

(* ------------------------------ C19 ------------------------------------ *)

\* the video files of a tree
VideoFiles(tree) ==
    { e \in Entries : tree[e].kind = "file" /\ e.ext \in VideoExts }

\* list -l or a dry-run split has discovered the videos of a directory that
\* holds exactly one video file
C19_Case ==
    /\ \/ c_cmd = "list" /\ c_opt.long
       \/ c_cmd = "split" /\ c_dry
    /\ c_target = RootDir
    /\ Cardinality(VideoFiles(fs0.tree)) = 1
    /\ c_pc = "loop"

\* C19: for a directory whose tree contains exactly one video file, list -l
\* and a dry-run split on the directory process what they process on that
\* file: the discovery yields that file exactly once and nothing else.
C19_OnlyTheFile ==
    C19_Case => \E e \in VideoFiles(fs0.tree) : c_vids = << e >>

(* ------------------------------ C20 ------------------------------------ *)

\* the plan of the video m under the arguments of the split
PlanOf(m) == PlanAlone(PlannerArgs(c_opt, m, fs0))

\* what the claim has a split do for the i-th of the videos: the
\* announcement, one extraction for each segment of the plan, in the order
\* of the plan, to split_dir / name, and the empty line
ExpectedFor(i) ==
    LET m == c_vids[i]
    IN  << Echo(<< "Splitting file #", i, "/", Len(c_vids) >>) >>
        \o [ k \in 1..Len(PlanOf(m)) |->
               Call("create_clip",
                    << PlanOf(m)[k][1], PlanOf(m)[k][2], m,
                       OutPath(PlanOf(m)[k][3]) >>) ]
        \o << Echo(<< >>) >>

RECURSIVE ExpectedUpTo(_)
ExpectedUpTo(i) ==
    IF i = 0
    THEN IF fs0.outdir THEN << >> ELSE << Call("mkdir", << OutPath(<< >>) >>) >>
    ELSE ExpectedUpTo(i - 1) \o ExpectedFor(i)

\* the extractions in the log that read the video m
CallsFor(m) ==
    SelectSeq(c_log, LAMBDA x : x.ev = "create_clip" /\ x.arg[3] = m)

\* C20: a split that is no dry run creates the split directory, if missing,
\* before it processes a video; then, video by video in the order of the
\* discovery, it announces 'Splitting file #i/N' and extracts each segment
\* of the plan of the video once, in ascending order, with the start and
\* stop of the segment, to split_dir / name. What it has done at any time
\* is the beginning of that, and all of it when it exits with 0; every
\* video then has as many part files as its plan has segments.
C20_SplitOrder ==
    (c_cmd = "split" /\ ~c_dry /\ c_pc \in { "loop", "exit" }) =>
        /\ IsPrefix(c_log, ExpectedUpTo(Len(c_vids)))
        /\ Len(c_log) > Len(ExpectedUpTo(0)) => fs.outdir
        /\ (c_pc = "exit" /\ c_exit = 0) =>
              /\ c_log = ExpectedUpTo(Len(c_vids))
              /\ \A i \in DOMAIN c_vids :
                    LET m == c_vids[i]
                    IN  /\ Len(CallsFor(m)) = Len(PlanOf(m))
                        /\ \A k \in DOMAIN PlanOf(m) :
                              /\ PlanOf(m)[k][3][4] = k
                              /\ PlanOf(m)[k][3][6] = Len(PlanOf(m))
                              /\ \E o \in fs.outfiles :
                                    o.name = PlanOf(m)[k][3]

\* a split of a directory has created the split directory and cut a video
\* as long as two parts into two parts
C20_Witness ==
    /\ c_cmd = "split" /\ ~c_dry
    /\ c_target = RootDir
    /\ ~fs0.outdir
    /\ c_pc = "exit" /\ c_exit = 0
    /\ \E i \in DOMAIN c_vids :
          /\ fs0.tree[c_vids[i]].dur
               = FMul(FromInt(2), convert_to_seconds(c_opt.length))
          /\ Len(CallsFor(c_vids[i])) = 2

(* ------------------------------ C21 ------------------------------------ *)

\* the video files found under the video path argument
FilesUnder ==
    IF c_target \in Entries THEN { c_target } ELSE VideoFiles(fs0.tree)

\* a copy that is no dry run has completed
C21_Case == c_cmd = "copy" /\ ~c_dry /\ c_pc = "exit" /\ c_exit = 0

\* C21: after a copy that is no dry run completes, the output directory
\* exists, every video file found under the source path has a file of its
\* name and with its content in the output directory, and the source tree
\* is unchanged.
C21_CopiesAll ==
    C21_Case =>
        /\ fs.outdir
        /\ \A e \in FilesUnder :
              \E o \in fs.outfiles :
                  o.name = << e.stem, Suffix(e) >> /\ o.data = << "copy", e >>
        /\ fs.tree = fs0.tree

(* ------------------------------ C22 ------------------------------------ *)

\* convert_dir / "{stem}.{extension}" for the video m
ConvertedPath(m) == OutPath(<< m.stem, ".", c_opt.extension >>)

\* C22: in a convert that is no dry run, every conversion comes right after
\* the line 'Converting file m to p' with p = convert_dir/{stem}.{extension},
\* the video converted last is then the file at that path, and the convert
\* directory exists, created first of all when it was missing, before any
\* conversion.
C22_ConvertPath ==
    (c_cmd = "convert" /\ ~c_dry) =>
        /\ \A k \in DOMAIN c_log :
              c_log[k].ev = "convert_video" =>
                  /\ k > 1
                  /\ c_log[k - 1]
                       = Echo(<< "Converting file ", c_log[k].arg[1], " to ",
                                 ConvertedPath(c_log[k].arg[1]) >>)
                  /\ fs.outdir
                  /\ ~fs0.outdir => c_log[1].ev = "mkdir"
        /\ c_idx >= 1 =>
              \E o \in fs.outfiles :
                  /\ o.name = ConvertedPath(c_vids[c_idx]).name
                  /\ o.data = << "convert", c_vids[c_idx], c_opt.extension >>

\* a convert of a directory has created the convert directory and
\* converted an .avi video to .mp4
C22_Witness ==
    /\ c_cmd = "convert" /\ ~c_dry
    /\ c_target = RootDir
    /\ ~fs0.outdir
    /\ c_opt.extension = "mp4"
    /\ c_idx >= 1
    /\ c_vids[c_idx] = EntryB
    /\ [name |-> << "b?", ".", "mp4" >>, data |-> << "convert", EntryB, "mp4" >>]
           \in fs.outfiles

(* ------------------------------ C23 ------------------------------------ *)

\* the elements of a sequence
Range(f) == { f[i] : i \in DOMAIN f }

\* convert on a directory has got the paths to process
C23_Case == c_cmd = "convert" /\ c_target = RootDir /\ c_pc = "loop"

\* C23: convert on a directory without --all-extensions processes the
\* discovered videos that do not have the target extension already, and no
\* path whose extension is the target extension; with --all-extensions it
\* processes every discovered video.
C23_FilterExt ==
    C23_Case =>
        \E f \in gen_video_paths(fs0.tree) :
            IF c_opt.all_extensions THEN c_vids = f
            ELSE /\ c_vids = SelectSeq(f, LAMBDA e : e.ext # c_opt.extension)
                 /\ \A e \in Range(c_vids) : e.ext # c_opt.extension

(* ------------------------------ C24 ------------------------------------ *)

\* random on a directory with --max-items k
C24_Case ==
    c_cmd = "random" /\ c_target = RootDir /\ c_opt.max_items.kind = "int"

\* the command has ended because the output directory could not be created
MkdirFailed ==
    /\ c_pc = "exit" /\ c_exit = 1
    /\ ~fs.outdir
    /\ c_log # << >> /\ c_log[Len(c_log)].ev = "mkdir"

\* the paths to process have been selected
Selected ==
    \/ c_pc = "loop"
    \/ c_pc = "exit" /\ (c_exit = 0 \/ c_idx < Len(c_vids))

\* C24: random on a directory with --max-items k selects at most k paths,
\* each one a discovered video and none twice, and the selection raises no
\* error, also when k is larger than the number of discovered videos.
C24_AtMostK ==
    C24_Case =>
        /\ c_pc = "exit" => Selected \/ MkdirFailed
        /\ Selected =>
              /\ Len(c_vids) <= c_opt.max_items.val
              /\ \A i, j \in DOMAIN c_vids : c_vids[i] = c_vids[j] => i = j
              /\ \E f \in gen_video_paths(fs0.tree) : Range(c_vids) \subseteq Range(f)

(* ------------------------------ C25 ------------------------------------ *)

\* two options are both None or the same int
SameOpt(a, b) == a.kind = b.kind /\ (a.kind = "int" => a.val = b.val)

\* C25: two calls over the same tree with the same seed given, and the same
\* max_items or none both times, yield the same paths in the same order
\* (and end in the same way), whatever the generator was used for before
\* each of them.
C25_SeedDecides ==
    (/\ rs_run = 2 /\ rs_pc = "done"
     /\ rs_seed.kind = "int"
     /\ SameOpt(rs_seed, rs_prev.seed)
     /\ SameOpt(rs_k, rs_prev.k)) =>
        rs_out = rs_prev.out /\ rs_err = rs_prev.err

\* two calls with seed 1 and no max_items have both yielded the three
\* videos of the tree in an order that is not the order of the discovery
C25_Witness ==
    /\ rs_run = 2 /\ rs_pc = "done"
    /\ rs_seed = IntOpt(1) /\ rs_prev.seed.kind = "int"
    /\ rs_k = None /\ rs_prev.k.kind = "None"
    /\ rs_out = << EntryB, EntryA, EntryC >>
    /\ rs_prev.out = rs_out

(* ------------------------------ C26 ------------------------------------ *)

\* the source and the new path of a rename in the log: the arguments of
\* shutil.move, or those echoed by debug_rename in a dry run
RenameSrc(x) == IF x.ev = "echo" THEN x.arg[2] ELSE x.arg[1]
RenameDst(x) == IF x.ev = "echo" THEN x.arg[4] ELSE x.arg[2]

\* the random part of a new name
RandomPart(name) == IF c_opt.append = "suffix" THEN name[3] ELSE name[1]

\* C26: rename with the pattern 'random' and --length L gives every path a
\* new name whose random part has exactly L characters, in the directory of
\* the path and with its extension: random+separator+stem with --append
\* prefix, stem+separator+random with --append suffix, the random part
\* alone otherwise.
C26_RandomName ==
    (c_cmd = "rename" /\ c_opt.pattern = "random") =>
        \A k \in DOMAIN c_log :
            LET m == RenameSrc(c_log[k])
                dst == RenameDst(c_log[k])
                t == RandomPart(dst.name)
            IN  /\ Len(t) = c_opt.rlength
                /\ dst.dir = m.dir
                /\ dst.name =
                     CASE c_opt.append = "prefix" ->
                            << t, c_opt.separator, m.stem, Suffix(m) >>
                       [] c_opt.append = "suffix" ->
                            << m.stem, c_opt.separator, t, Suffix(m) >>
                       [] OTHER -> << t, Suffix(m) >>

(* ------------------------------ C27 ------------------------------------ *)

\* a time stamp without its colons
NoColons(text) == SelectSeq(text, LAMBDA c : c # ":")

\* C27: a clip that is no dry run attempts the extraction only when the
\* clip directory exists, created first when it was missing; when the
\* creation is denied or the extraction raises, the command ends in
\* sys.exit(message) with a non-zero exit status and not in a traceback;
\* when it exits with 0 the clip is the file
\* clip_dir/{stem}_clip_{start without colons}_{stop without colons}{suffix}.
C27_Clip ==
    (c_cmd = "clip" /\ ~c_dry) =>
        /\ \A k \in DOMAIN c_log :
              c_log[k].ev = "create_clip" =>
                  /\ fs.outdir
                  /\ ~fs0.outdir => (k = 2 /\ c_log[1].ev = "mkdir")
        /\ c_end # "traceback"
        /\ (c_pc = "exit" /\ c_end # "return") =>
              c_end = "sys.exit" /\ c_exit # 0
        /\ (c_pc = "exit" /\ c_end = "return") =>
              /\ c_exit = 0
              /\ \E o \in fs.outfiles :
                    /\ o.name = << c_target.stem, "_clip_",
                                   NoColons(c_opt.start), "_",
                                   NoColons(c_opt.stop), Suffix(c_target) >>
                    /\ o.data = << "clip", c_target, c_opt.start, c_opt.stop >>

\* a clip has created the clip directory and written the clip
C27_Witness ==
    /\ c_cmd = "clip" /\ ~c_dry
    /\ ~fs0.outdir /\ fs.outdir
    /\ c_pc = "exit" /\ c_exit = 0
    /\ c_opt.start = << "0", ":", "0", ":", "1" >>
    /\ c_opt.stop = << "0", ":", "1", ":", "6" >>
    /\ [name |-> << "a", "_clip_", << "0", "0", "1" >>, "_",
                    << "0", "1", "6" >>, ".mp4" >>,
        data |-> << "clip", c_target, c_opt.start, c_opt.stop >>]
           \in fs.outfiles

(* ------------------------------ C28 ------------------------------------ *)

\* cvsecs on the text of a time stamp: the float of every field of
\* time.split(":"), hour first
TimeOfStamp(text) ==
    LET f == split(text, ":")
    IN  << FromInt(IntOfText(f[1])), FromInt(IntOfText(f[2])), FloatOfText(f[3]) >>

\* the length argument of split has passed TimeStamp.convert
LengthAccepted ==
    /\ ts_param = "length"
    /\ ts_pc = "body" \/ ts_ran

\* C28: every length that TimeStamp.convert accepts converts to a strictly
\* positive number of seconds, so that gen_split_part_info is never reached
\* with a part length of zero or less.
C28_PositiveLength ==
    LengthAccepted => IsPositive(convert_to_seconds(TimeOfStamp(ts_value)))

\* what the validation does ensure: three numeric fields, with the minute
\* and the second at most 60
C28_Validated ==
    LengthAccepted =>
        /\ ~BadStamp(ts_value)
        /\ FGe(FromInt(3600 * IntOfText(split(ts_value, ":")[1]) + 3660),
               convert_to_seconds(TimeOfStamp(ts_value)))

\* the length "0:0:0" is accepted and is zero seconds
C28_ZeroAccepted ==
    /\ LengthAccepted
    /\ ts_value = << "0", ":", "0", ":", "0" >>
    /\ convert_to_seconds(TimeOfStamp(ts_value)).num = 0

\* the length "-1:0:0" is accepted and is a negative number of seconds
C28_NegativeAccepted ==
    /\ LengthAccepted
    /\ ts_value = << "-", "1", ":", "0", ":", "0" >>
    /\ convert_to_seconds(TimeOfStamp(ts_value)).num < 0

(* ------------------------------ C29 ------------------------------------ *)

\* the line a dry run prints for the arguments of a call of create_clip:
\* start, stop and output path as texts
LineOf(call) == << call.arg[1], str_stop(call.arg[2]), call.arg[4] >>

\* the lines dry_run_split prints for the video m, in order
DryLines(m) ==
    LET o == CHOOSE o \in dry_run_split(c_opt, m, fs0) : TRUE
    IN  [ k \in DOMAIN o.log |-> o.log[k].arg ]

\* the arguments of all the calls of create_clip split_video makes for the
\* video m when none of them raises, in order, as lines
RealLines(m) ==
    LET o == CHOOSE o \in split_video(c_opt, m, fs0) :
                 \A o2 \in split_video(c_opt, m, fs0) : Len(o2.log) <= Len(o.log)
    IN  [ k \in DOMAIN o.log |-> LineOf(o.log[k]) ]

\* the lines of the extractions a split has made of the video m
RunLines(m) == [ k \in DOMAIN CallsFor(m) |-> LineOf(CallsFor(m)[k]) ]

\* what a dry-run split prints for the first i of the videos, from the
\* calls of split_video
RECURSIVE DryExpectedUpTo(_)
DryExpectedUpTo(i) ==
    IF i = 0 THEN << >>
    ELSE DryExpectedUpTo(i - 1)
         \o << Echo(<< "Splitting file #", i, "/", Len(c_vids) >>) >>
         \o [ k \in DOMAIN RealLines(c_vids[i]) |-> Echo(RealLines(c_vids[i])[k]) ]
         \o << Echo(<< >>) >>

\* C29: for the same video, length, split directory and suffix, the lines
\* (start, stop, split_dir / name) of dry_run_split are, one by one and in
\* the same order, the (start, stop, output path) of the calls of
\* create_clip of split_video. A split that is no dry run has made a
\* beginning of these calls at any time and all of them when it exits with
\* 0; a dry run has printed a beginning of these lines and all of them when
\* it exits with 0.
C29_SamePlan ==
    (c_cmd = "split" /\ c_pc \in { "loop", "exit" }) =>
        /\ \A i \in DOMAIN c_vids :
              LET m == c_vids[i]
              IN  /\ DryLines(m) = RealLines(m)
                  /\ ~c_dry => IsPrefix(RunLines(m), DryLines(m))
                  /\ (~c_dry /\ c_pc = "exit" /\ c_exit = 0) =>
                        RunLines(m) = DryLines(m)
        /\ c_dry => IsPrefix(c_log, DryExpectedUpTo(Len(c_vids)))
        /\ (c_dry /\ c_pc = "exit" /\ c_exit = 0) =>
              c_log = DryExpectedUpTo(Len(c_vids))

\* a dry-run split has printed the two lines of a video as long as two
\* parts, the second with the stop 'None' or a text
C29_Witness ==
    /\ c_cmd = "split" /\ c_dry
    /\ c_pc = "exit" /\ c_exit = 0
    /\ \E i \in DOMAIN c_vids :
          /\ Len(RealLines(c_vids[i])) = 2
          /\ Echo(RealLines(c_vids[i])[2]) \in Range(c_log)

====
